---- MODULE Spec2Model ----
(***************************************************************************)
(* Documentarist: the configuration store (documentarist/config.py), the    *)
(* command dispatch (documentarist/command.py, documentarist/__main__.py)   *)
(* and the mapping of raised conditions to the process exit status          *)
(* (documentarist/__main__.py).                                              *)
(*                                                                           *)
(* Five specifications share the variables:                                  *)
(*   SpecStore  the operations of ConfigStorage, called in any order;        *)
(*   Spec       one run of the program per token list: Main.__init__.        *)
(*   SpecRuns   runs of `dm config ...` one after the other, each a new     *)
(*              process, on one file system;                                 *)
(*   SpecUI     the message queue of the user interface (ui.py): a main      *)
(*              thread that emits messages and starts the interface, and a   *)
(*              second thread that emits messages meanwhile;                 *)
(*   SpecData   the functions of common/data_utils.py and the ExitCode       *)
(*              enumeration, applied to inputs drawn from bounded sets.      *)
(***************************************************************************)
EXTENDS Integers, Sequences, FiniteSets, TLC

\* ------------------------------------------------------------------ bounds
\* Number of ConfigStorage operations in one behaviour of SpecStore.
MaxOps == 3
\* Number of distinct non-empty setting values drawn as inputs.
NumValues == 2
\* Longest token list handed to a run.
MaxTokens == 3
\* Number of runs of the program in one behaviour of SpecRuns.
MaxRuns == 3
\* Number of calls of inform, warn and alert in one behaviour of SpecUI.
MaxMsgs == 3
\* Largest argument of ordinal, and largest bound of a range, in SpecData.
MaxOrdinal == 125
MaxBound == 12

VARIABLES
    config,     \* ConfigStorage._config: (section, name) -> value, in memory
    files,      \* the file system: path -> [exists, data]
    confdir,    \* TRUE when the directory CONFIG_DIR exists
    last,       \* the operation performed last, with what it read and wrote
    prev,       \* the operation before it
    nops,       \* number of operations performed
    loaded,     \* path given to the latest load() that read that path
    argv,       \* the command line of the run: [version, dashdash, tokens]
    wiring,     \* which classes the root's config and label commands construct
    pc,         \* position of the run in Main.__init__
    events,     \* what dispatch did: calls, help prints, alerts, output
    exception,  \* Main.__init__'s `exception`: the condition caught, if any
    exit_code,  \* Main.__init__'s `exit_code`: the ExitCode member chosen
    interrupt,  \* what the user did while the try statement ran
    ended,      \* how the process ended: sys.exit, os._exit, uncaught, signal
    status,     \* exit status of the process; -1 while it runs
    uiclass,    \* the class of the interface object: UI of documentarist/ui.py or CLI of common/ui.py
    be_quiet,   \* the be_quiet argument the interface was constructed with
    started,    \* the interface's _started
    queue,      \* the interface's _queue: the messages put and not yet got
    console,    \* the messages printed by _console.print, in order
    calls,      \* the calls of inform, warn and alert so far, in order
    thread,     \* per thread: where it is in the interface's code, and with which message
    input,      \* the function applied and its argument
    output      \* what the function returned or raised

storeVars == <<config, files, confdir, last, prev, nops, loaded>>
runVars == <<argv, wiring, pc, events, exception, exit_code, interrupt, ended, status>>
uiVars == <<uiclass, be_quiet, started, queue, console, calls, thread>>
dataVars == <<input, output>>
libVars == <<uiVars, dataVars>>
vars == <<storeVars, runVars, libVars>>

\* No interface object and no function call: the state of the variables of
\* SpecUI and SpecData in the other specifications.
NoThread == [pc |-> "idle", msg |-> 0]
UIIdle ==
    /\ uiclass = "-"
    /\ be_quiet = FALSE
    /\ started = FALSE
    /\ queue = <<>>
    /\ console = <<>>
    /\ calls = <<>>
    /\ thread = [t \in {"main", "worker"} |-> NoThread]
DataIdle ==
    /\ input = [fn |-> "-", n |-> 0, text |-> <<>>, member |-> "-"]
    /\ output = [raised |-> "-", value |-> <<>>]
LibIdle == UIIdle /\ DataIdle

\* ------------------------------------------------------------ config.py
\* Python's None, and the values `not value` is true of.
NoneV == "<None>"
Truthy(value) == value /= NoneV /\ value /= ""

ValuePool == <<"scan", "photo", "report", "draft">>
Values == {ValuePool[i] : i \in 1..NumValues}

\* DEFAULT_SETTINGS, as read_dict stores it: every value becomes a string.
DEFAULT_SETTINGS ==
    (<<"documentarist", "quiet">> :> "False") @@
    (<<"documentarist", "debug">> :> "False") @@
    (<<"documentarist", "basename">> :> "document") @@
    (<<"documentarist", "outputdir">> :> ".") @@
    (<<"google", "creds_file">> :> "") @@
    (<<"microsoft", "creds_file">> :> "") @@
    (<<"amazon", "creds_file">> :> "")

CONFIG_DIR == "CONFIG_DIR"
SETTINGS_FILE == "documentarist.ini"
\* ConfigStorage._config_file = join(CONFIG_DIR, SETTINGS_FILE); never reassigned.
config_file == "CONFIG_DIR/documentarist.ini"

\* A file that exists outside CONFIG_DIR, and a path at which no file exists
\* initially.
CustomFile == "custom.ini"
MissingFile == "missing.ini"
\* A file named SETTINGS_FILE in the current working directory.
CwdFile == "./documentarist.ini"
Paths == {config_file, CustomFile, MissingFile, CwdFile}

NoData == [k \in {} |-> ""]
Absent == [exists |-> FALSE, data |-> NoData]
FileOf(data) == [exists |-> TRUE, data |-> data]

\* CREDENTIALS_FILES, and join(CONFIG_DIR, credentials_filename(service)).
CREDENTIALS_FILES ==
    [amazon |-> "amazon_credentials.json", google |-> "google_credentials.json",
     microsoft |-> "microsoft_credentials.json"]
Services == DOMAIN CREDENTIALS_FILES
credentials_filename(service) == CREDENTIALS_FILES[service]
dest_file(service) == CONFIG_DIR \o "/" \o credentials_filename(service)

\* The files a user hands to `config auth`: their whole content is one value.
Body(text) == FileOf(<<"json", "body">> :> text)
UserFiles ==
    ("a.json" :> Body("A")) @@ ("b.json" :> Body("B")) @@ ("credsjson" :> Body("A"))
        @@ ("notes.txt" :> Body("A")) @@ ("gone.json" :> Absent)
        @@ ("damaged.json" :> Body("D"))
\* A file on a medium that fails while the file is read: the first part is
\* read, then read() raises OSError.
FailsWhileRead(path) == path = "damaged.json"
Partial(file) == Body(file.data[<<"json", "body">>] \o "[:n]")
\* The file system outside the configuration files, before any install.
OtherFiles == UserFiles @@ [p \in {dest_file(s) : s \in Services} |-> Absent]
exists(fs, path) == path \in DOMAIN fs /\ fs[path].exists

\* ConfigParser.read(file): every key of the file is stored, over the value in
\* memory; a file that does not exist is skipped silently.
ConfigParser_read(cfg, fs, path) ==
    IF exists(fs, path)
    THEN [k \in (DOMAIN cfg) \cup (DOMAIN fs[path].data) |->
             IF k \in DOMAIN fs[path].data THEN fs[path].data[k] ELSE cfg[k]]
    ELSE cfg

Sections(cfg) == {k[1] : k \in DOMAIN cfg}

\* The result of an operation: the store after it, the condition it raised and
\* the files it read and wrote.
Result(cfg, fs, dir, raised, outcome, read, written) ==
    [config |-> cfg, files |-> fs, confdir |-> dir, raised |-> raised,
     outcome |-> outcome, read |-> read, written |-> written]

\* ConfigStorage.load(file = None)
ConfigStorage_load(st, file) ==
    IF Truthy(file) /\ exists(st.files, file)
    THEN Result(ConfigParser_read(st.config, st.files, file), st.files, st.confdir,
                "none", "read", file, "-")
    ELSE Result(ConfigParser_read(st.config, st.files, config_file), st.files,
                st.confdir, "none",
                IF exists(st.files, config_file) THEN "read" ELSE "nofile",
                IF exists(st.files, config_file) THEN config_file ELSE "-", "-")

\* A mutant of save() whose output depends on what the file held: a file that
\* holds the settings already is truncated and left empty.
ConfigStorage_save_append(st, file) ==
    LET dir == IF ~exists(st.files, config_file) THEN TRUE ELSE st.confdir
        file_path == IF Truthy(file) THEN file ELSE config_file
        data == IF st.files[file_path] = FileOf(st.config) THEN NoData ELSE st.config
    IN  Result(st.config, [st.files EXCEPT ![file_path] = FileOf(data)], dir,
               "none", "saved", "-", file_path)

\* ConfigStorage.save(file = None)
ConfigStorage_save(st, file) ==
    LET dir == IF ~exists(st.files, config_file) THEN TRUE ELSE st.confdir
        file_path == IF Truthy(file) THEN file ELSE config_file
    IN  Result(st.config, [st.files EXCEPT ![file_path] = FileOf(st.config)], dir,
               "none", "saved", "-", file_path)

\* ConfigStorage.get(name, section)
ConfigStorage_get(cfg, name, section) ==
    IF <<section, name>> \in DOMAIN cfg THEN cfg[<<section, name>>] ELSE "<KeyError>"

\* Mutants of set(): one that updates the value in memory and leaves the write
\* to a later save(), one that lacks the `if not value` guard.
ConfigStorage_set_writeback(st, name, value, section) ==
    IF <<section, name>> \in DOMAIN st.config
    THEN IF ~Truthy(value)
         THEN Result(st.config, st.files, st.confdir, "none", "noop", "-", "-")
         ELSE IF st.config[<<section, name>>] /= value
         THEN Result([st.config EXCEPT ![<<section, name>>] = value], st.files,
                     st.confdir, "none", "set", "-", "-")
         ELSE Result(st.config, st.files, st.confdir, "none", "unchanged", "-", "-")
    ELSE Result(st.config, st.files, st.confdir, "KeyError", "raised", "-", "-")

ConfigStorage_set_noguard(st, name, value, section) ==
    IF <<section, name>> \in DOMAIN st.config
    THEN LET v == IF value = NoneV THEN "None" ELSE value
         IN  IF st.config[<<section, name>>] /= v
             THEN LET upd == [st EXCEPT !.config[<<section, name>>] = v]
                      sv == ConfigStorage_save(upd, NoneV)
                  IN  [sv EXCEPT !.outcome = "set"]
             ELSE Result(st.config, st.files, st.confdir, "none", "unchanged", "-", "-")
    ELSE Result(st.config, st.files, st.confdir, "KeyError", "raised", "-", "-")

\* A mutant of set() that stores a name the section does not have, as plain
\* assignment to a ConfigParser section would.
ConfigStorage_set_addkey(st, name, value, section) ==
    IF section \notin Sections(st.config)
    THEN Result(st.config, st.files, st.confdir, "KeyError", "raised", "-", "-")
    ELSE IF ~Truthy(value)
    THEN Result(st.config, st.files, st.confdir, "none", "noop", "-", "-")
    ELSE LET upd == [st EXCEPT !.config = (<<section, name>> :> value) @@ st.config]
             sv == ConfigStorage_save(upd, NoneV)
         IN  [sv EXCEPT !.outcome = "set"]

\* ConfigStorage.set(name, value, section = 'documentarist')
ConfigStorage_set(st, name, value, section) ==
    IF section \notin Sections(st.config)
    THEN Result(st.config, st.files, st.confdir, "KeyError", "raised", "-", "-")
    ELSE IF <<section, name>> \in DOMAIN st.config
    THEN IF ~Truthy(value)
         THEN Result(st.config, st.files, st.confdir, "none", "noop", "-", "-")
         ELSE IF st.config[<<section, name>>] /= value
         THEN LET upd == [st EXCEPT !.config[<<section, name>>] = value]
                  sv == ConfigStorage_save(upd, NoneV)
              IN  [sv EXCEPT !.outcome = "set"]
         ELSE Result(st.config, st.files, st.confdir, "none", "unchanged", "-", "-")
    ELSE Result(st.config, st.files, st.confdir, "KeyError", "raised", "-", "-")

\* ------------------------------------------------------- common/exit_codes.py
\* ExitCode: each member's value is the pair (number, meaning).
\* A mutant of ExitCode: the numbering of the enumeration before file_error
\* was added to it.
ExitCode_unshifted ==
    [success        |-> <<0, "success -- program completed normally">>,
     no_net         |-> <<1, "no network detected">>,
     bad_arg        |-> <<2, "encountered a bad or missing value for an option">>,
     file_error     |-> <<3, "encountered a problem with a file">>,
     user_interrupt |-> <<3, "the user interrupted execution">>,
     exception      |-> <<4, "an exception or fatal error occurred">>]

ExitCode ==
    [success        |-> <<0, "success -- program completed normally">>,
     no_net         |-> <<1, "no network detected">>,
     bad_arg        |-> <<2, "encountered a bad or missing value for an option">>,
     file_error     |-> <<3, "encountered a problem with a file">>,
     user_interrupt |-> <<4, "the user interrupted execution">>,
     exception      |-> <<5, "an exception or fatal error occurred">>]

\* --------------------------------------------------- conditions and results
\* A raised condition: its class and its first argument.
Cond(type, arg) == [type |-> type, arg |-> arg]
NoCond == Cond("none", "-")
\* The classes derived from Exception; SystemExit and KeyboardInterrupt derive
\* from BaseException and pass through `except Exception`.
ExceptionTypes ==
    {"CannotProceed", "UserCancelled", "TypeError", "NameError", "KeyError",
     "FileNotFoundError", "OSError"}

\* What a call did: the events in order, the condition it raised, the store.
Ev(node, kind, name) == [node |-> node, kind |-> kind, name |-> name]
R(evs, raised, st) == [events |-> evs, raised |-> raised, st |-> st]
Then(evs, r) == [r EXCEPT !.events = evs \o @]

\* -------------------------------------------------------------- the tokens
Tokens == {"help", "version", "extract", "config", "label", "show", "basename",
           "outputdir", "__init__", "_invoke_with", "bogus", "", "-x", "-f",
           "scan", "/tmp"}
\* Tokens argparse takes for options: they start with "-".
OptionLike(t) == t \in {"-x", "-f"}
HasOption(args) == \E i \in 1..Len(args) : OptionLike(args[i])
\* name.startswith('_')
StartsWithUnderscore(name) == name \in {"__init__", "_invoke_with", "_command", "_parser", "_name"}
\* os.path.exists(path) and commonpy's writable(path) for the paths of the model.
\* "/etc" stands for a directory that exists and that the user may not write.
path_exists(path) == path \in {"/tmp", ".", "/etc"}
writable(path) == path \in {"/tmp", "."}

\* dir(self) of each command class: its methods, its data attributes and the
\* attributes every object has.
Main_dir(w) ==
    {"help", "version", "extract", "config", "__init__"}
        \cup (IF w = "commands" THEN {"label"} ELSE {})
Config_dir == {"help", "show", "basename", "outputdir", "auth", "__init__"}
ConfigCommand_dir ==
    {"help", "show", "basename", "outputdir", "auth",
     "__init__", "_invoke_with", "_command", "_parser", "_name"}
dir(node, w) ==
    CASE node = "Main" -> Main_dir(w)
      [] node = "Config" -> Config_dir
      [] node = "ConfigCommand" -> ConfigCommand_dir
      [] OTHER -> {"help", "__init__", "_invoke_with", "_command", "_parser", "_name"}
\* The attributes that are routines, and those of them the token list can be
\* passed to as the dispatcher passes it.
Callable(node, name) == name \notin {"_command", "_parser", "_name"}
\* command_list(cls): the names the node's help advertises.
command_list(node, w) == {name \in dir(node, w) : ~StartsWithUnderscore(name)}

\* The help(args) method of Main, Config and Command: parse_args with one
\* optional positional, then the class help, a docstring, or an alert.
help(node, args, w, st) ==
    IF HasOption(args) \/ Len(args) > 1
    THEN R(<<Ev(node, "usage", "help")>>, Cond("SystemExit", "2"), st)
    ELSE IF args = <<>>
    THEN R(<<Ev(node, "print", "class_help")>>, NoCond, st)
    ELSE IF args[1] \in dir(node, w)
    THEN R(<<Ev(node, "print", "doc:" \o args[1])>>, NoCond, st)
    ELSE R(<<Ev(node, "alert", args[1]), Ev(node, "print", "class_help")>>, NoCond, st)

\* ---------------------------------------------------- __main__.py: Config
\* Config.basename(parent, args): prints, then parse_args with one required
\* positional.
Config_basename(args, st) ==
    IF HasOption(args) \/ Len(args) /= 1
    THEN R(<<Ev("Config", "print", "basename"), Ev("Config", "usage", "basename")>>,
           Cond("SystemExit", "2"), st)
    ELSE R(<<Ev("Config", "print", "basename"), Ev("Config", "print", "result")>>,
           NoCond, st)

RECURSIVE Config_init(_, _)
\* Config.__init__(parent, arg_list)
Config_init(arg_list, st) ==
    IF HasOption(arg_list)
    THEN R(<<Ev("Config", "usage", "")>>, Cond("SystemExit", "2"), st)
    ELSE IF arg_list /= <<>>
    THEN LET command_name == Head(arg_list)
             rest == Tail(arg_list)
         IN  IF command_name \in Config_dir
             THEN Then(<<Ev("Config", "call", command_name)>>,
                       CASE command_name = "help" -> help("Config", rest, "__main__", st)
                         [] command_name = "basename" -> Config_basename(rest, st)
                         [] command_name = "__init__" -> Config_init(rest, st)
                         [] OTHER -> R(<<Ev("Config", "print", command_name)>>, NoCond, st))
             ELSE R(<<Ev("Config", "unrecognized", command_name), Ev("Config", "help", "")>>,
                    Cond("CannotProceed", "bad_arg"), st)
    ELSE R(<<Ev("Config", "help", "")>>, NoCond, st)

\* --------------------------------------------- config.py: ConfigCommand
\* ConfigCommand.show(args)
ConfigCommand_show(args, st) ==
    R([i \in 1..Len(args) |->
          IF \E k \in DOMAIN st.config : k[1] \o "." \o k[2] = args[i]
          THEN Ev("ConfigCommand", "print", args[i])
          ELSE Ev("ConfigCommand", "warn", args[i])]
      \o (IF args = <<>> THEN <<Ev("ConfigCommand", "print", "settings")>> ELSE <<>>),
      NoCond, st)

StoreOf(r) == [config |-> r.config, files |-> r.files, confdir |-> r.confdir]
\* log('writing config file ' + file_path): the write a ConfigStorage call did.
Wrote(r) ==
    IF r.written /= "-" THEN <<Ev("ConfigStorage", "write", r.written)>> ELSE <<>>

\* ConfigStorage.set(name, value) followed by ConfigStorage.save(), as the
\* handlers call them; a condition raised by set() skips the save.
SetThenSave(st, name, value) ==
    LET r == ConfigStorage_set(st, name, value, "documentarist")
        sv == ConfigStorage_save(StoreOf(r), NoneV)
    IN  IF r.raised /= "none"
        THEN R(<<>>, Cond(r.raised, name), StoreOf(r))
        ELSE R(Wrote(r) \o Wrote(sv), NoCond, StoreOf(sv))

\* ConfigCommand.basename(args)
ConfigCommand_basename(args, st) ==
    IF args = <<>> \/ \E i \in 1..Len(args) : args[i] = "help"
    THEN R(<<Ev("ConfigCommand", "print", "usage:basename")>>, NoCond, st)
    ELSE IF HasOption(args) \/ Len(args) > 1
    THEN R(<<Ev("ConfigCommand", "usage", "basename")>>, Cond("SystemExit", "2"), st)
    ELSE IF Truthy(args[1])
    THEN SetThenSave(st, "basename", args[1])
    ELSE R(<<>>, NoCond, st)

\* A mutant of outputdir that stores and saves the path before it tests it.
ConfigCommand_outputdir_setfirst(args, st) ==
    IF args = <<>> \/ \E i \in 1..Len(args) : args[i] = "help"
    THEN R(<<Ev("ConfigCommand", "print", "usage:outputdir")>>, NoCond, st)
    ELSE IF HasOption(args) \/ Len(args) > 1
    THEN R(<<Ev("ConfigCommand", "usage", "outputdir")>>, Cond("SystemExit", "2"), st)
    ELSE IF Truthy(args[1])
    THEN LET r == SetThenSave(st, "outputdir", args[1])
         IN  IF ~path_exists(args[1]) \/ ~writable(args[1])
             THEN R(r.events \o <<Ev("ConfigCommand", "alert", "Directory does not exist")>>,
                    Cond("CannotProceed", "file_error"), r.st)
             ELSE r
    ELSE R(<<>>, NoCond, st)

\* ConfigCommand.outputdir(args)
ConfigCommand_outputdir(args, st) ==
    IF args = <<>> \/ \E i \in 1..Len(args) : args[i] = "help"
    THEN R(<<Ev("ConfigCommand", "print", "usage:outputdir")>>, NoCond, st)
    ELSE IF HasOption(args) \/ Len(args) > 1
    THEN R(<<Ev("ConfigCommand", "usage", "outputdir")>>, Cond("SystemExit", "2"), st)
    ELSE IF Truthy(args[1])
    THEN IF ~path_exists(args[1])
         THEN R(<<Ev("ConfigCommand", "alert", "Directory does not exist")>>,
                Cond("CannotProceed", "file_error"), st)
         ELSE IF ~writable(args[1])
         THEN R(<<Ev("ConfigCommand", "alert", "Directory is not writable")>>,
                Cond("CannotProceed", "file_error"), st)
         ELSE SetThenSave(st, "outputdir", args[1])
    ELSE R(<<>>, NoCond, st)

\* str.lower() and str.endswith('json') on the names of the model.
lower(name) == IF name = "Google" THEN "google" ELSE name
endswith_json(path) == path \in {"a.json", "b.json", "gone.json", "damaged.json", "credsjson"}

\* copy_file(src, dst) of commonpy, a copy in place (shutil.copy2): src is
\* opened first, then dst is opened for writing, which truncates it, then the
\* content is copied block by block.
copy_file(st, src, dst) ==
    IF ~exists(st.files, src) \/ ~st.confdir
    THEN R(<<>>, Cond("FileNotFoundError", src), st)
    ELSE IF FailsWhileRead(src)
    THEN R(<<Ev("ConfigCommand", "copy", dst)>>, Cond("OSError", src),
           [st EXCEPT !.files[dst] = Partial(st.files[src])])
    ELSE R(<<Ev("ConfigCommand", "copy", dst)>>, NoCond,
           [st EXCEPT !.files[dst] = st.files[src]])

\* ConfigCommand.auth(args): parse_args with `service` (one token) and `file`
\* (optional) comes first, the test for help after it.
ConfigCommand_auth(args, st) ==
    IF HasOption(args) \/ Len(args) = 0 \/ Len(args) > 2
    THEN R(<<Ev("ConfigCommand", "usage", "auth")>>, Cond("SystemExit", "2"), st)
    ELSE IF \E i \in 1..Len(args) : args[i] = "help"
    THEN R(<<Ev("ConfigCommand", "print", "usage:auth")>>, NoCond, st)
    ELSE LET service == lower(args[1])
             file == IF Len(args) = 2 THEN args[2] ELSE NoneV
         IN  IF service \notin {"google", "microsoft", "amazon"}
             THEN R(<<Ev("ConfigCommand", "alert", "Uncrecognized service name")>>,
                    Cond("CannotProceed", "bad_arg"), st)
             ELSE IF ~Truthy(file)
             THEN R(<<Ev("ConfigCommand", "alert", "Missing file argument")>>,
                    Cond("CannotProceed", "bad_arg"), st)
             ELSE IF ~endswith_json(file)
             THEN R(<<Ev("ConfigCommand", "alert", "File is expected to be a JSON file")>>,
                    Cond("CannotProceed", "bad_arg"), st)
             ELSE LET copied == copy_file(st, file, dest_file(service))
                      r == ConfigStorage_set(copied.st, "creds_file", dest_file(service), service)
                  IN  IF copied.raised /= NoCond
                      THEN copied
                      ELSE R(copied.events \o Wrote(r),
                             IF r.raised /= "none" THEN Cond(r.raised, "creds_file") ELSE NoCond,
                             StoreOf(r))

\* ------------------------------------------------- command.py: Command
\* parse_known_args with the one optional positional `subcommand`: the first
\* token that is not an option is the subcommand, the others are left over.
FirstPositional(arg_list) ==
    LET P == {i \in 1..Len(arg_list) : ~OptionLike(arg_list[i])}
    IN  IF P = {} THEN 0 ELSE CHOOSE i \in P : \A j \in P : i <= j
Without(arg_list, i) ==
    [j \in 1..(Len(arg_list) - 1) |-> IF j < i THEN arg_list[j] ELSE arg_list[j + 1]]

\* A mutant of _invoke_with that tests for the empty list only: `help` is
\* dispatched to the node's help method like any other subcommand.
Command_invoke_with_helpcalled(node, arg_list, st) ==
    IF arg_list = <<>>
    THEN R(<<Ev(node, "help", "")>>, NoCond, st)
    ELSE IF OptionLike(arg_list[1]) \/ arg_list[1] \notin dir(node, "commands")
    THEN R(<<Ev(node, "unrecognized", arg_list[1])>>, Cond("NameError", "parser"), st)
    ELSE Then(<<Ev(node, "call", arg_list[1])>>,
              CASE arg_list[1] = "help" -> help(node, Tail(arg_list), "commands", st)
                [] arg_list[1] = "show" -> ConfigCommand_show(Tail(arg_list), st)
                [] arg_list[1] = "basename" -> ConfigCommand_basename(Tail(arg_list), st)
                [] arg_list[1] = "outputdir" -> ConfigCommand_outputdir(Tail(arg_list), st)
                [] arg_list[1] = "auth" -> ConfigCommand_auth(Tail(arg_list), st)
                [] OTHER -> R(<<>>, NoCond, st))

RECURSIVE Command_invoke_with(_, _, _)
\* Command._invoke_with(arg_list), on a node of class `node`
Command_invoke_with(node, arg_list, st) ==
    IF arg_list = <<>> \/ arg_list[1] = "help"
    THEN R(<<Ev(node, "help", "")>>, NoCond, st)
    ELSE LET i == FirstPositional(arg_list)
             subcommand == IF i = 0 THEN NoneV ELSE arg_list[i]
             args == IF i = 0 THEN arg_list ELSE Without(arg_list, i)
         IN  IF Truthy(subcommand)
             THEN IF subcommand \in dir(node, "commands")
                  THEN IF ~Callable(node, subcommand)
                       THEN R(<<Ev(node, "callfail", subcommand)>>, Cond("TypeError", "-"), st)
                       ELSE Then(<<Ev(node, "call", subcommand)>>,
                                 CASE subcommand = "help" -> help(node, args, "commands", st)
                                   [] subcommand = "show" -> ConfigCommand_show(args, st)
                                   [] subcommand = "basename" -> ConfigCommand_basename(args, st)
                                   [] subcommand = "outputdir" -> ConfigCommand_outputdir(args, st)
                                   [] subcommand = "auth" -> ConfigCommand_auth(args, st)
                                   [] subcommand \in {"_invoke_with", "__init__"} ->
                                          Command_invoke_with(node, args, st))
                  \* `parser` is no name of this scope: print_help is not reached.
                  ELSE R(<<Ev(node, "unrecognized", subcommand)>>, Cond("NameError", "parser"), st)
             ELSE R(<<>>, NoCond, st)

\* ConfigCommand.__init__(arg_list)
ConfigCommand_init(arg_list, st) == Command_invoke_with("ConfigCommand", arg_list, st)

\* ------------------------------------------------ label.py: LabelCommand
\* LabelCommand.__init__(arg_list). FileError is no name of label.py, so each
\* `raise FileError(...)` of _targets_from_file raises NameError.
LabelCommand_init(arg_list, st) ==
    IF arg_list = <<>> \/ \E i \in 1..Len(arg_list) : arg_list[i] = "help"
    THEN R(<<Ev("LabelCommand", "help", "")>>, NoCond, st)
    ELSE IF \/ \E i \in 1..Len(arg_list) : arg_list[i] = "-x"
            \/ \E i \in 1..Len(arg_list) :
                  arg_list[i] = "-f" /\ (i = Len(arg_list) \/ OptionLike(arg_list[i + 1]))
    THEN R(<<Ev("LabelCommand", "usage", "")>>, Cond("SystemExit", "2"), st)
    ELSE IF \E i \in 1..(Len(arg_list) - 1) : arg_list[i] = "-f" /\ Truthy(arg_list[i + 1])
    THEN \* no path of the model is a regular file: not exists, or not isfile
         R(<<>>, Cond("NameError", "FileError"), st)
    ELSE R(<<Ev("LabelCommand", "warn", "targets")>>, NoCond, st)

\* ------------------------------------------------------ __main__.py: Main
\* The root's commands that construct a Command subclass with the remaining
\* tokens: config is ConfigCommand, label is LabelCommand. The conditions these
\* classes raise are taken to be the classes Main.__init__ tests for.
Root_command(command_name, args, st) ==
    CASE command_name = "config" -> ConfigCommand_init(args, st)
      [] command_name = "label" -> LabelCommand_init(args, st)

\* The handler Main's dispatch calls as getattr(self, command_name)(parser, args).
\* Main.config of __main__.py constructs Config, the class of that file.
Main_handler(command_name, args, w, st) ==
    CASE command_name = "help" -> help("Main", args, w, st)
      [] command_name = "version" -> R(<<Ev("Main", "print", "version")>>, NoCond, st)
      [] command_name = "extract" -> R(<<>>, NoCond, st)
      [] command_name = "config" ->
             IF w = "commands" THEN Root_command("config", args, st)
             ELSE Config_init(args, st)
      [] command_name = "label" -> Root_command("label", args, st)

\* The body of the try statement of Main.__init__. The result carries the
\* binding of the local exit_code the body leaves.
Binding(r, code) ==
    [events |-> r.events, raised |-> r.raised, st |-> r.st, exit_code |-> code]

Main_try(command, w, st) ==
    IF command /= <<>>
    THEN LET command_name == Head(command)
         IN  IF command_name \in Main_dir(w)
             THEN IF command_name = "__init__"
                  \* Main.__init__(parser, args): one positional argument too many
                  THEN Binding(R(<<Ev("Main", "callfail", command_name)>>,
                                 Cond("TypeError", "-"), st), "unbound")
                  ELSE Binding(Then(<<Ev("Main", "call", command_name)>>,
                                    Main_handler(command_name, Tail(command), w, st)),
                               "unbound")
             ELSE Binding(R(<<Ev("Main", "unrecognized", command_name), Ev("Main", "help", "")>>,
                            NoCond, st), "bad_arg")
    ELSE Binding(R(<<Ev("Main", "help", "")>>, NoCond, st), "unbound")

\* The classification of the caught condition: `exit_code = ExitCode.success`
\* and the if statement after it.
Main_classify(exc) ==
    IF exc.type /= "none"
    THEN IF exc.type = "CannotProceed" THEN exc.arg
         ELSE IF exc.type \in {"KeyboardInterrupt", "UserCancelled"} THEN "user_interrupt"
         ELSE "exception"
    ELSE "success"

\* int(member) of an ExitCode member: the member is no int, its value is a
\* pair, so int() raises TypeError.
int_raises(member) == Len(ExitCode[member]) = 2

\* How a process ends: by sys.exit(n) with status n, by os._exit(n), or with
\* a traceback and status 1 when an exception leaves the program.
Ended(how, n) == [ended |-> how, status |-> n]
Uncaught == Ended("uncaught", 1)

\* The last statement of Main.__init__. `os` is no name of __main__.py, so
\* `os._exit` raises NameError; sys.exit(int(exit_code)) ends the process with
\* the number unless int() raises.
Main_exit(code) ==
    IF code = "user_interrupt" THEN Uncaught
    ELSE IF int_raises(code) THEN Uncaught
    ELSE Ended("sys.exit", ExitCode[code][1])

\* -------------------------------------------------------------- SpecStore
Store == [config |-> config, files |-> files, confdir |-> confdir]

NoOp == [op |-> "-", name |-> "-", section |-> "-", value |-> "-", file |-> "-",
         old |-> "-", raised |-> "-", outcome |-> "-", read |-> "-", written |-> "-"]

Apply(result, op) ==
    \E r \in {result} :
        /\ config' = r.config
        /\ files' = r.files
        /\ confdir' = r.confdir
        /\ prev' = last
        /\ last' = [op EXCEPT !.raised = r.raised, !.outcome = r.outcome,
                              !.read = r.read, !.written = r.written]
        /\ nops' = nops + 1

\* Files a configuration can be loaded from: what an earlier run saved, or a
\* file written by hand, which may give some settings only and may carry keys
\* of an older version.
KeyB == <<"documentarist", "basename">>
KeyG == <<"google", "creds_file">>
SavedFiles == {FileOf([DEFAULT_SETTINGS EXCEPT ![KeyB] = v]) : v \in Values}
HandFiles == {FileOf(KeyB :> v) : v \in Values}
                \cup {FileOf((KeyB :> ValuePool[1]) @@ (<<"documentarist", "legacy">> :> "old"))}

\* No run is in progress.
RunIdle ==
    /\ argv = [version |-> FALSE, dashdash |-> FALSE, tokens |-> <<>>]
    /\ wiring = "__main__"
    /\ pc = "idle"
    /\ events = <<>>
    /\ exception = [type |-> "none", arg |-> "-"]
    /\ exit_code = "unbound"
    /\ interrupt = "none"
    /\ ended = "-"
    /\ status = -1

InitStore ==
    /\ config = DEFAULT_SETTINGS
    /\ \E d \in {Absent} \cup SavedFiles, c \in HandFiles :
          \E w \in {Absent, FileOf(KeyB :> ValuePool[NumValues])} :
              files = (config_file :> d) @@ (CustomFile :> c) @@ (MissingFile :> Absent)
                          @@ (CwdFile :> w) @@ OtherFiles
    /\ confdir \in {exists(files, config_file), TRUE}
    /\ last = NoOp
    /\ prev = NoOp
    /\ nops = 0
    /\ loaded = NoneV
    /\ RunIdle
    /\ LibIdle

SetKeys == {KeyB, KeyG, <<"documentarist", "nonexistent">>, <<"carrierpigeon", "creds_file">>}
SetValues == Values \cup {NoneV, ""}
LoadFiles == {NoneV, config_file, CustomFile, MissingFile}
SaveFiles == {NoneV, CustomFile}

Load(file) ==
    /\ nops < MaxOps
    /\ UNCHANGED <<runVars, libVars>>
    /\ Apply(ConfigStorage_load(Store, file), [NoOp EXCEPT !.op = "load", !.file = file])
    /\ loaded' = IF Truthy(file) /\ exists(files, file) THEN file ELSE NoneV

Save(file) ==
    /\ nops < MaxOps
    /\ UNCHANGED <<runVars, libVars>>
    /\ Apply(ConfigStorage_save(Store, file), [NoOp EXCEPT !.op = "save", !.file = file])
    /\ UNCHANGED loaded

Set(key, value) ==
    /\ nops < MaxOps
    /\ UNCHANGED <<runVars, libVars>>
    /\ Apply(ConfigStorage_set(Store, key[2], value, key[1]),
             [NoOp EXCEPT !.op = "set", !.section = key[1], !.name = key[2],
                          !.value = value,
                          !.old = ConfigStorage_get(config, key[2], key[1])])
    /\ UNCHANGED loaded

NextStore ==
    \/ \E file \in LoadFiles : Load(file)
    \/ \E file \in SaveFiles : Save(file)
    \/ \E key \in SetKeys, value \in SetValues : Set(key, value)

SpecStore == InitStore /\ [][NextStore]_vars

\* ------------------------------------------------------------------- Spec
TokenLists == UNION {[1..n -> Tokens] : n \in 0..MaxTokens}

Init ==
    /\ config = DEFAULT_SETTINGS
    /\ files = (config_file :> Absent) @@ (CustomFile :> Absent) @@ (MissingFile :> Absent)
                   @@ (CwdFile :> Absent) @@ OtherFiles
    /\ confdir = FALSE
    /\ last = NoOp
    /\ prev = NoOp
    /\ nops = 0
    /\ loaded = NoneV
    /\ \E t \in TokenLists, v \in BOOLEAN, d \in BOOLEAN :
          /\ d => HasOption(t)
          /\ argv = [version |-> v, dashdash |-> d, tokens |-> t]
    /\ wiring \in {"__main__", "commands"}
    /\ (wiring = "commands") => (argv.tokens /= <<>> /\ argv.tokens[1] \in {"config", "label"})
    /\ pc = "start"
    /\ events = <<>>
    /\ exception = NoCond
    /\ exit_code = "unbound"
    /\ interrupt = "none"
    /\ ended = "-"
    /\ status = -1
    /\ LibIdle

\* parser.parse_args(arg_list[1:]): a token that looks like an option and is
\* none of the parser's ends the process with status 2, unless "--" precedes.
ParseArgs ==
    /\ pc = "start"
    /\ IF HasOption(argv.tokens) /\ ~argv.dashdash
       THEN /\ pc' = "parse_error"
            /\ events' = <<Ev("Main", "usage", "")>>
            /\ ended' = "sys.exit"
            /\ status' = 2
       ELSE /\ pc' = "parsed"
            /\ UNCHANGED <<events, ended, status>>
    /\ UNCHANGED <<storeVars, argv, wiring, exception, exit_code, interrupt, libVars>>

\* if args.version: print_version(); exit(int(ExitCode.success))
Version ==
    /\ pc = "parsed" /\ argv.version
    /\ events' = <<Ev("Main", "print", "version")>>
    /\ ended' = Main_exit("success").ended
    /\ status' = Main_exit("success").status
    /\ pc' = "version_exit"
    /\ UNCHANGED <<storeVars, argv, wiring, exception, exit_code, interrupt, libVars>>

\* The try statement: the dispatch and the handler it calls run; `intr` is
\* what the user does meanwhile. A condition derived from Exception is caught;
\* SystemExit and KeyboardInterrupt leave Main.__init__: SystemExit ends the
\* process with its code, KeyboardInterrupt with the status of SIGINT.
Dispatch(intr) ==
    /\ pc = "parsed" /\ ~argv.version
    /\ interrupt' = intr
    /\ \E r \in {Main_try(argv.tokens, wiring, Store)} :
       LET raised == IF intr = "none" THEN r.raised ELSE Cond(intr, "-")
       IN  /\ events' = r.events
           /\ config' = r.st.config
           /\ files' = r.st.files
           /\ confdir' = r.st.confdir
           /\ exit_code' = r.exit_code
           /\ IF raised.type \in ExceptionTypes \/ raised.type = "none"
              THEN /\ exception' = raised
                   /\ pc' = "classify"
                   /\ UNCHANGED <<ended, status>>
              ELSE /\ exception' = NoCond
                   /\ pc' = "escaped"
                   /\ ended' = IF raised.type = "KeyboardInterrupt" THEN "signal" ELSE "sys.exit"
                   /\ status' = CASE raised.type = "KeyboardInterrupt" -> 130
                                  [] raised.arg = "2" -> 2
                                  [] OTHER -> 0
    /\ UNCHANGED <<last, prev, nops, loaded, argv, wiring, libVars>>

\* exit_code = ExitCode.success, then the classification of `exception`
Classify ==
    /\ pc = "classify"
    /\ exit_code' = Main_classify(exception)
    /\ pc' = "exit"
    /\ UNCHANGED <<storeVars, argv, wiring, events, exception, interrupt, ended, status, libVars>>

\* os._exit(int(exit_code)) or exit(int(exit_code))
Exit ==
    /\ pc = "exit"
    /\ ended' = Main_exit(exit_code).ended
    /\ status' = Main_exit(exit_code).status
    /\ pc' = "exited"
    /\ UNCHANGED <<storeVars, argv, wiring, events, exception, exit_code, interrupt, libVars>>

Next ==
    \/ ParseArgs
    \/ Version
    \/ \E intr \in {"none", "KeyboardInterrupt", "UserCancelled"} : Dispatch(intr)
    \/ Classify
    \/ Exit

Spec == Init /\ [][Next]_vars

\* The process has ended.
Done == pc \in {"parse_error", "version_exit", "escaped", "exited"}

\* --------------------------------------------------------------- SpecRuns
\* Runs of `dm config ...`, one process after the other, on one file system.
\* Each process starts with the store config.py builds when it is imported,
\* Config = ConfigStorage(), which holds DEFAULT_SETTINGS: no statement of
\* Main.__init__ or of ConfigCommand calls load().
ConfigStorage_init == DEFAULT_SETTINGS

AuthServices == {"google", "microsoft", "Google", "carrierpigeon"}
AuthFiles == DOMAIN UserFiles
RunArgs ==
    {<<>>, <<"show">>, <<"bogus">>, <<"basename", "document">>,
     <<"outputdir", "/tmp">>, <<"outputdir", ".">>, <<"outputdir", "scan">>,
     <<"outputdir", "/etc">>,
     <<"auth">>, <<"auth", "help">>}
        \cup {<<"basename", v>> : v \in Values}
        \cup {<<"auth", s>> : s \in AuthServices}
        \cup {<<"auth", s, f>> : s \in AuthServices, f \in AuthFiles}

InitRuns ==
    /\ config = ConfigStorage_init
    /\ \E d \in {Absent} \cup SavedFiles :
          files = (config_file :> d) @@ (CustomFile :> Absent) @@ (MissingFile :> Absent)
                      @@ (CwdFile :> Absent) @@ OtherFiles
    /\ confdir \in {exists(files, config_file), TRUE}
    /\ last = NoOp
    /\ prev = NoOp
    /\ nops = 0
    /\ loaded = NoneV
    /\ RunIdle
    /\ LibIdle

\* One whole run of Main.__init__ in a new process: the try statement, the
\* classification of what it raised, and the exit.
Run(args) ==
    /\ nops < MaxRuns
    /\ \E r \in {Main_try(<<"config">> \o args, "commands",
                          [config |-> ConfigStorage_init, files |-> files,
                           confdir |-> confdir])} :
       LET caught == r.raised.type \in ExceptionTypes \/ r.raised.type = "none"
           code == IF caught THEN Main_classify(r.raised) ELSE r.exit_code
           end == IF caught THEN Main_exit(code) ELSE Ended("sys.exit", 2)
       IN  /\ argv' = [version |-> FALSE, dashdash |-> FALSE, tokens |-> <<"config">> \o args]
           /\ wiring' = "commands"
           /\ events' = r.events
           /\ config' = r.st.config
           /\ files' = r.st.files
           /\ confdir' = r.st.confdir
           /\ exception' = IF caught THEN r.raised ELSE NoCond
           /\ exit_code' = code
           /\ ended' = end.ended
           /\ status' = end.status
           /\ pc' = IF caught THEN "exited" ELSE "escaped"
    /\ interrupt' = "none"
    /\ prev' = last
    /\ last' = [NoOp EXCEPT !.op = "run"]
    /\ nops' = nops + 1
    /\ UNCHANGED <<loaded, libVars>>

NextRuns == \E args \in RunArgs : Run(args)

SpecRuns == InitRuns /\ [][NextRuns]_vars

\* ------------------------------------------------------ claims on dispatch
Count(node, kinds) ==
    Cardinality({i \in 1..Len(events) : events[i].node = node /\ events[i].kind \in kinds})

\* The class the root's config command constructs, and the nodes whose
\* dispatch ran in this run.
ConfigNode == IF wiring = "commands" THEN "ConfigCommand" ELSE "Config"
Entered(node) ==
    \/ node = "Main"
    \/ node = ConfigNode /\ \E i \in 1..Len(events) : events[i] = Ev("Main", "call", "config")

\* The try statement has run and no interruption cut it short.
Dispatched == pc \in {"classify", "exit", "exited", "escaped"} /\ interrupt = "none"

\* The three outcomes of one dispatch at a node: it called a handler; it
\* signalled a bad argument (the alert about the token, with the failure or,
\* at the root, the help; or the usage error of the node's own parser); it
\* printed the node's help and signalled nothing.
CalledHandler(node) == Count(node, {"call", "callfail"}) >= 1
SignalledBadArg(node) ==
    \/ node = "Main" /\ Count(node, {"unrecognized"}) >= 1 /\ Count(node, {"help"}) >= 1
    \/ node /= "Main" /\ Count(node, {"unrecognized"}) >= 1
          /\ (exception = Cond("CannotProceed", "bad_arg") \/ pc = "classify")
          /\ Count(node, {"help"}) >= 1
    \/ \E i \in 1..Len(events) : events[i] = Ev(node, "usage", "")
PrintedHelp(node) == Count(node, {"help"}) >= 1 /\ ~SignalledBadArg(node)
Outcomes(node) ==
    (IF CalledHandler(node) THEN 1 ELSE 0) + (IF SignalledBadArg(node) THEN 1 ELSE 0)
        + (IF PrintedHelp(node) THEN 1 ELSE 0)

\* C1: one dispatch at a node ends in exactly one of: one handler call, one
\* help print, one bad-argument failure.
C1_ExactlyOneOutcome ==
    Dispatched =>
        \A node \in {"Main", "Config", "ConfigCommand"} :
            Entered(node) =>
                /\ Outcomes(node) = 1
                /\ Count(node, {"call", "callfail"}) <= 1
                /\ Count(node, {"help"}) <= 1

\* C2: a run in which a node met a first token that names none of its
\* commands prints that node's help and ends with exit status 2.
C2_UnrecognizedEndsWithStatus2 ==
    (Done /\ interrupt = "none")
    => \A i \in 1..Len(events) :
           events[i].kind = "unrecognized"
           => /\ status = 2
              /\ Count(events[i].node, {"help"}) >= 1

\* C3: dispatch calls a routine of a node only for a token that is one of the
\* commands the node advertises.
C3_OnlyAdvertisedCommandsAreCalled ==
    \A i \in 1..Len(events) :
        events[i].kind = "call" => events[i].name \in command_list(events[i].node, wiring)

\* C4: the exit status of a run that reaches the end of Main.__init__ is the
\* status a CannotProceed carries, 5 for any other condition that is not an
\* interruption, and 0 when no condition was raised.
C4_ExitStatusFromCondition ==
    pc = "exited" =>
        /\ exception.type = "CannotProceed" => status = ExitCode[exception.arg][1]
        /\ exception.type = "none" => status = 0
        /\ exception.type \in {"TypeError", "NameError", "KeyError"} => status = 5

\* C5: a run interrupted by the user (KeyboardInterrupt or UserCancelled
\* during dispatch) ends at once, by os._exit, with exit status 4.
C5_InterruptEndsWithStatus4 ==
    (Done /\ interrupt /= "none") => (status = 4 /\ ended = "os._exit")

\* C6: a run whose handler raised a file-error condition (CannotProceed
\* carrying file_error, or FileError) ends with exit status 3.
RaisedFileError ==
    \/ exception = Cond("CannotProceed", "file_error")
    \/ exception = Cond("NameError", "FileError")
C6_FileErrorEndsWithStatus3 ==
    (Done /\ interrupt = "none" /\ RaisedFileError) => status = 3

\* ------------------------------------------------- claims on ConfigStorage
LastKey == <<last.section, last.name>>
LastSetKnown == last.op = "set" /\ LastKey \in DOMAIN config

\* The store was seeded with the defaults, then loaded from a file that gave
\* the setting a value other than the default, then set to a non-empty value.
PrecedenceCase ==
    /\ nops = 2
    /\ prev.op = "load" /\ prev.read /= "-"
    /\ LastSetKnown /\ Truthy(last.value)
    /\ last.old /= DEFAULT_SETTINGS[LastKey]

\* C7: after defaults, then a load from a file giving the setting another
\* value, then set(name, v) with v non-empty, get(name) returns v and the file
\* the configuration was loaded from contains v.
C7_PrecedencePersisted ==
    PrecedenceCase =>
        /\ ConfigStorage_get(config, last.name, last.section) = last.value
        /\ exists(files, prev.read)
        /\ LastKey \in DOMAIN files[prev.read].data
        /\ files[prev.read].data[LastKey] = last.value

\* C8: after load(path) of an existing file, every save() without argument
\* and every write done by set() goes to that path.
C8_LoadedFileIsActive ==
    (/\ loaded /= NoneV
     /\ \/ last.op = "save" /\ last.file = NoneV
        \/ last.op = "set"
     /\ last.written /= "-")
    => last.written = loaded

\* C9: set() with a non-empty value that differs from the stored one leaves
\* the new value in memory and in the configuration file when it returns.
C9_WriteThrough ==
    (LastSetKnown /\ Truthy(last.value) /\ last.old /= last.value)
    => /\ ConfigStorage_get(config, last.name, last.section) = last.value
       /\ last.written = config_file
       /\ files[config_file] = FileOf(config)
       /\ confdir

C9_Witness ==
    /\ LastSetKnown /\ Truthy(last.value) /\ last.old /= last.value
    /\ prev.op /= "save"
    /\ files[config_file].data[LastKey] = last.value

\* C10: set() with the value "" or None on a known setting changes neither
\* the values in memory nor any file.
C10_EmptySetIsNoOp ==
    [][(/\ nops' = nops + 1
        /\ last'.op = "set" /\ ~Truthy(last'.value)
        /\ <<last'.section, last'.name>> \in DOMAIN config)
       => (config' = config /\ files' = files /\ confdir' = confdir)]_vars

C10_Witness ==
    /\ LastSetKnown /\ ~Truthy(last.value)
    /\ last.old /= "" /\ last.outcome = "noop"

C12_KeyUniverseFixed ==
    /\ DOMAIN config = DOMAIN DEFAULT_SETTINGS
    /\ \A p \in DOMAIN files :
           last.written = p => DOMAIN files[p].data = DOMAIN DEFAULT_SETTINGS

\* C13: load(file) with a file that was named and does not exist fails with
\* the bad-argument condition and reads no other file in its place.
C13_MissingNamedFileFails ==
    (last.op = "load" /\ Truthy(last.file) /\ ~exists(files, last.file))
    => (last.raised = "CannotProceed" /\ last.read = "-")

\* C14: load() without a path reads the configuration file of the current
\* working directory when there is one, otherwise the file in CONFIG_DIR; when
\* neither exists it raises nothing, keeps the values and creates no file.
C14_LoadSearchOrder ==
    (last.op = "load" /\ last.file = NoneV)
    => /\ last.raised = "none"
       /\ exists(files, CwdFile) => last.read = CwdFile
       /\ (~exists(files, CwdFile) /\ exists(files, config_file)) => last.read = config_file
       /\ (~exists(files, CwdFile) /\ ~exists(files, config_file)) => last.read = "-"

\* C15: a save() that follows a save() with nothing in between writes the same
\* content as the first one did, and save() changes no stored value.
C15_SaveIdempotent ==
    [][(nops' = nops + 1 /\ last'.op = "save")
       => /\ config' = config
          /\ (last.op = "save" /\ last.file = last'.file) => files' = files
          /\ last.op = "save" => files'[last'.written] = files[last.written]]_vars

C15_Witness ==
    /\ nops = 3 /\ last.op = "save" /\ last.file = NoneV
    /\ prev.op = "save" /\ prev.file = NoneV
    /\ config /= DEFAULT_SETTINGS
    /\ files[config_file] = FileOf(config)

\* ------------------------------------------------ claims on runs of config
\* The run that ended last was `dm config <name> <value>`.
RanSetting(name, value) == pc = "exited" /\ argv.tokens = <<"config", name, value>>

\* C16: a run of `config basename NAME` or `config outputdir PATH` whose value
\* equals the one the store holds writes no configuration file.
C16_NoWriteWhenUnchanged ==
    \A name \in {"basename", "outputdir"} :
        RanSetting(name, ConfigStorage_init[<<"documentarist", name>>])
        => Count("ConfigStorage", {"write"}) = 0

\* C17: a run whose handler reads the settings (config show) reads the values
\* the configuration file holds, persisted by an earlier run.
C17_StoreLoadedBeforeDispatch ==
    (pc = "exited" /\ argv.tokens = <<"config", "show">> /\ exists(files, config_file))
    => \A k \in DOMAIN files[config_file].data :
           ConfigStorage_get(config, k[2], k[1]) = files[config_file].data[k]

\* C18: a run of `config auth SERVICE FILE` that raises nothing leaves FILE's
\* content in the managed file of the service, the managed path as the value
\* of the service's creds_file in the store and in the configuration file,
\* and the managed file and persisted creds_file of every other service as
\* they were.
C18_InstallRecordsCredentials ==
    [][\A name \in AuthServices, f \in AuthFiles :
         LET s == lower(name)
         IN  (/\ nops' = nops + 1
              /\ argv'.tokens = <<"config", "auth", name, f>>
              /\ pc' = "exited" /\ exception' = NoCond)
             => /\ files'[dest_file(s)] = files[f]
                /\ ConfigStorage_get(config', "creds_file", s) = dest_file(s)
                /\ exists(files', config_file)
                /\ files'[config_file].data[<<s, "creds_file">>] = dest_file(s)
                /\ \A o \in Services \ {s} :
                      /\ files'[dest_file(o)] = files[dest_file(o)]
                      /\ exists(files, config_file)
                         => files'[config_file].data[<<o, "creds_file">>]
                                = files[config_file].data[<<o, "creds_file">>]]_vars

\* The name has the extension .json.
HasJsonExtension(path) == path \in {"a.json", "b.json", "gone.json", "damaged.json"}

\* C19: a run of `config auth` with a service name outside google, microsoft
\* and amazon, without a file, or with a file that has no .json extension
\* raises the bad-argument condition, copies nothing and writes nothing.
C19_InstallValidatedFirst ==
    (/\ pc = "exited"
     /\ Len(argv.tokens) \in {3, 4}
     /\ argv.tokens[1] = "config" /\ argv.tokens[2] = "auth" /\ argv.tokens[3] /= "help"
     /\ \/ lower(argv.tokens[3]) \notin Services
        \/ Len(argv.tokens) = 3
        \/ Len(argv.tokens) = 4 /\ ~HasJsonExtension(argv.tokens[4]))
    => /\ exception = Cond("CannotProceed", "bad_arg")
       /\ exit_code = "bad_arg"
       /\ Count("ConfigCommand", {"copy"}) = 0
       /\ Count("ConfigStorage", {"write"}) = 0
       /\ config = ConfigStorage_init

\* C20: after a run of `config auth SERVICE FILE` the managed file of the
\* service holds the whole content of FILE or is what it was before the run.
C20_CopyIsAtomic ==
    [][\A name \in AuthServices, f \in AuthFiles :
         (/\ nops' = nops + 1
          /\ argv'.tokens = <<"config", "auth", name, f>>
          /\ lower(name) \in Services)
         => \/ files'[dest_file(lower(name))] = files[f]
            \/ files'[dest_file(lower(name))] = files[dest_file(lower(name))]]_vars

\* ---------------------------------------------------------- claims on help
\* What a run shows the user: the events other than the calls of handlers,
\* at the root and below it.
Shown(evs, atRoot) ==
    SelectSeq(evs, LAMBDA e : e.kind /= "call" /\ ((e.node = "Main") = atRoot))

\* The run of this process with `help` as the token list of the node the
\* tokens `prefix` lead to.
HelpRun(prefix) == Main_try(prefix \o <<"help">>, wiring, Store)

\* The node the tokens `prefix` lead to was given the empty token list, and
\* it showed what it shows for the token list of `help` alone; neither raised.
HelpFallback(prefix) ==
    (Dispatched /\ argv.tokens = prefix) =>
        /\ exception = NoCond
        /\ HelpRun(prefix).raised = NoCond
        /\ Shown(events, prefix = <<>>) /= <<>>
        /\ Shown(events, prefix = <<>>) = Shown(HelpRun(prefix).events, prefix = <<>>)

HelpName(prefix, node) ==
    \A NAME \in Tokens :
        (Dispatched /\ ~OptionLike(NAME) /\ argv.tokens = prefix \o <<"help", NAME>>) =>
            /\ exception = NoCond
            /\ Shown(events, prefix = <<>>) =
                   IF NAME \in command_list(node, wiring)
                   THEN <<Ev(node, "print", "doc:" \o NAME)>>
                   ELSE <<Ev(node, "alert", NAME), Ev(node, "print", "class_help")>>

\* C22: `help NAME` prints the documentation of the command NAME of the node,
\* and for a NAME that is no command of the node it alerts and prints the
\* node's class help; at the root and at the node of `config`.
C22_HelpNameDocumented ==
    HelpName(<<>>, "Main") /\ HelpName(<<"config">>, ConfigNode)

\* ----------------------------------------------------------------- SpecUI
\* ui.py: the interface object is a singleton with a flag _started and a
\* queue. The main thread emits messages and calls start() once; a second
\* thread emits messages meanwhile. A message is the index of its call.
Threads == {"main", "worker"}
UIClasses == {"documentarist.ui.UI", "common.ui.CLI"}

\* The store and the run of the other specifications, untouched.
StoreIdle ==
    /\ config = DEFAULT_SETTINGS
    /\ files = (config_file :> Absent) @@ (CustomFile :> Absent) @@ (MissingFile :> Absent)
                   @@ (CwdFile :> Absent) @@ OtherFiles
    /\ confdir = FALSE
    /\ last = NoOp
    /\ prev = NoOp
    /\ nops = 0
    /\ loaded = NoneV

\* The state after UI(name, show_banner = False, be_quiet = ...) of
\* documentarist/ui.py, or after UI(name, subtitle, be_quiet = ...) of
\* common/ui.py, which constructs a CLI.
InitUI ==
    /\ uiclass \in UIClasses
    /\ be_quiet \in BOOLEAN
    /\ started = FALSE
    /\ queue = <<>>
    /\ console = <<>>
    /\ calls = <<>>
    /\ thread = [t \in Threads |-> NoThread]
    /\ DataIdle
    /\ StoreIdle
    /\ RunIdle

\* inform(text, force = ...) up to its call of _print_or_queue. UI.__new__ of
\* documentarist/ui.py never stores be_quiet, so reading self._be_quiet
\* raises AttributeError unless `force` decides the test before it is read.
\* CLI.inform of common/ui.py takes no keyword argument and reads the
\* _be_quiet its constructor stored.
inform(cls, quiet, force) ==
    IF cls = "documentarist.ui.UI"
    THEN IF force THEN "show" ELSE "AttributeError"
    ELSE IF ~quiet THEN "show" ELSE "log"

\* A thread calls inform, warn or alert: the call up to _print_or_queue.
Emit(t, kind, force) ==
    /\ thread[t].pc = "idle"
    /\ Len(calls) < MaxMsgs
    /\ force => (kind = "inform" /\ uiclass = "documentarist.ui.UI")
    /\ LET how == IF kind = "inform" THEN inform(uiclass, be_quiet, force) ELSE "show"
       IN  /\ calls' = Append(calls, [thread |-> t, kind |-> kind, force |-> force,
                                      outcome |-> how])
           /\ thread' = [thread EXCEPT ![t] =
                            IF how = "show"
                            THEN [pc |-> "print_or_queue", msg |-> Len(calls) + 1]
                            ELSE NoThread]
    /\ UNCHANGED <<uiclass, be_quiet, started, queue, console, dataVars, storeVars, runVars>>

\* _print_or_queue: `if self._started:`
print_or_queue(t) ==
    /\ thread[t].pc = "print_or_queue"
    /\ thread' = [thread EXCEPT ![t].pc = IF started THEN "print" ELSE "put"]
    /\ UNCHANGED <<uiclass, be_quiet, started, queue, console, calls, dataVars, storeVars, runVars>>

\* _print_or_queue: self._console.print(text, ...)
console_print(t) ==
    /\ thread[t].pc = "print"
    /\ console' = Append(console, thread[t].msg)
    /\ thread' = [thread EXCEPT ![t] = NoThread]
    /\ UNCHANGED <<uiclass, be_quiet, started, queue, calls, dataVars, storeVars, runVars>>

\* _print_or_queue: self._queue.put((text, style))
queue_put(t) ==
    /\ thread[t].pc = "put"
    /\ queue' = Append(queue, thread[t].msg)
    /\ thread' = [thread EXCEPT ![t] = NoThread]
    /\ UNCHANGED <<uiclass, be_quiet, started, console, calls, dataVars, storeVars, runVars>>

\* The main thread calls start(), once.
start ==
    /\ thread["main"].pc = "idle"
    /\ ~started
    /\ thread' = [thread EXCEPT !["main"].pc = "while"]
    /\ UNCHANGED <<uiclass, be_quiet, started, queue, console, calls, dataVars, storeVars, runVars>>

\* start: `while not self._queue.empty():` and, in the loop, self._queue.get()
start_while ==
    /\ thread["main"].pc = "while"
    /\ IF queue = <<>>
       THEN /\ thread' = [thread EXCEPT !["main"].pc = "set_started"]
            /\ UNCHANGED queue
       ELSE /\ thread' = [thread EXCEPT !["main"] = [pc |-> "start_print", msg |-> Head(queue)]]
            /\ queue' = Tail(queue)
    /\ UNCHANGED <<uiclass, be_quiet, started, console, calls, dataVars, storeVars, runVars>>

\* start: self._console.print(text, ...) in the loop
start_print ==
    /\ thread["main"].pc = "start_print"
    /\ console' = Append(console, thread["main"].msg)
    /\ thread' = [thread EXCEPT !["main"] = [pc |-> "while", msg |-> 0]]
    /\ UNCHANGED <<uiclass, be_quiet, started, queue, calls, dataVars, storeVars, runVars>>

\* start: self._started = True, the last statement
set_started ==
    /\ thread["main"].pc = "set_started"
    /\ started' = TRUE
    /\ thread' = [thread EXCEPT !["main"] = NoThread]
    /\ UNCHANGED <<uiclass, be_quiet, queue, console, calls, dataVars, storeVars, runVars>>

NextUI ==
    \/ \E t \in Threads, kind \in {"inform", "warn", "alert"}, force \in BOOLEAN :
          Emit(t, kind, force)
    \/ \E t \in Threads : print_or_queue(t)
    \/ \E t \in Threads : console_print(t)
    \/ \E t \in Threads : queue_put(t)
    \/ start
    \/ start_while
    \/ start_print
    \/ set_started

SpecUI == InitUI /\ [][NextUI]_vars

\* ------------------------------------------------------ claims on messages
\* The messages the user is to see: every warn and alert, and every inform
\* unless the interface was told to be quiet and the call does not force it.
ToShow(i) == calls[i].kind /= "inform" \/ calls[i].force \/ ~be_quiet
MessagesOf(t) == {i \in 1..Len(calls) : calls[i].thread = t /\ ToShow(i)}
InSeq(seq, i) == \E k \in 1..Len(seq) : seq[k] = i
Times(seq, i) == Cardinality({k \in 1..Len(seq) : seq[k] = i})

\* C23: the messages one thread passes to inform, warn and alert are queued
\* while start() has not been called, are all printed when start() has
\* returned, and are printed at once afterwards: they are printed in the order
\* of the calls, and no message is printed twice.
C23_MessagesInCallOrder ==
    /\ \A k, l \in 1..Len(console) :
          /\ (k /= l) => (console[k] /= console[l])
          /\ (k < l /\ calls[console[k]].thread = calls[console[l]].thread)
                 => (console[k] < console[l])
    /\ (~started /\ thread["main"].pc = "idle") =>
           \A i \in MessagesOf("main") : InSeq(queue, i) /\ ~InSeq(console, i)
    /\ (started /\ thread["main"].pc = "idle") =>
           \A i \in MessagesOf("main") : InSeq(console, i)

\* C29: once start() has returned and no call of inform, warn or alert is in
\* progress, no message is left in the queue, and every message that was
\* handed to _print_or_queue has been printed exactly once.
C29_NoMessageLeftQueued ==
    (started /\ \A t \in Threads : thread[t].pc = "idle") =>
        /\ queue = <<>>
        /\ \A i \in 1..Len(calls) : (calls[i].outcome = "show") => (Times(console, i) = 1)

\* ------------------------------------------------------ claims on the exit
\* C24: a run has no exit status while it runs, and every run that has ended
\* (after -V, after help, after a failed dispatch, after a handler) ended by
\* an exit call of the program with a status that is one of 0, 2, 3, 4, 5.
C24_OneStatusFromTheEnumeration ==
    /\ (status /= -1) => Done
    /\ Done => (ended \in {"sys.exit", "os._exit"} /\ status \in {0, 2, 3, 4, 5})

\* --------------------------------------------------------------- SpecData
\* common/data_utils.py and common/exit_codes.py. A string is the sequence of
\* its characters.
Digits == <<"0", "1", "2", "3", "4", "5", "6", "7", "8", "9">>
IsDigit(c) == \E d \in 1..10 : Digits[d] = c
DigitValue(c) == (CHOOSE d \in 1..10 : Digits[d] = c) - 1

RECURSIVE str(_)
\* str(n) and '{}'.format(n) of an int that is not negative
str(n) == IF n < 10 THEN <<Digits[n + 1]>> ELSE str(n \div 10) \o <<Digits[(n % 10) + 1]>>

\* int(s) of a string: ValueError unless s is one digit or more (no input of
\* the model has a sign, a blank or an underscore).
int_fails(s) == s = <<>> \/ \E k \in 1..Len(s) : ~IsDigit(s[k])
RECURSIVE int(_)
int(s) == IF Len(s) = 1 THEN DigitValue(s[1])
          ELSE 10 * int(SubSeq(s, 1, Len(s) - 1)) + DigitValue(s[Len(s)])

RECURSIVE split(_, _)
\* text.split(sep) with a separator of one character
split(text, sep) ==
    LET K == {k \in 1..Len(text) : text[k] = sep}
    IN  IF K = {} THEN <<text>>
        ELSE LET k == CHOOSE j \in K : \A l \in K : j <= l
             IN  <<SubSeq(text, 1, k - 1)>> \o split(SubSeq(text, k + 1, Len(text)), sep)

RECURSIVE sort(_)
\* list.sort(key = int): stable, ascending by the int of each element
sort(list) ==
    IF list = <<>> THEN <<>>
    ELSE LET k == CHOOSE j \in 1..Len(list) :
                      /\ \A l \in 1..Len(list) : int(list[j]) <= int(list[l])
                      /\ \A l \in 1..(j - 1) : int(list[l]) /= int(list[j])
         IN  <<list[k]>> \o sort([l \in 1..(Len(list) - 1) |->
                                     IF l < k THEN list[l] ELSE list[l + 1]])

\* What a call gives: the value returned or the condition raised.
Returned(value) == [raised |-> "none", value |-> value]
Raised(type) == [raised |-> type, value |-> <<>>]

\* 'tsnrhtdd'
tsnrhtdd == <<"t", "s", "n", "r", "h", "t", "d", "d">>
\* Python's int(bool)
Bool(b) == IF b THEN 1 ELSE 0
\* n/10%10 != 1. `/` is the true division of Python 3: n/10 is a float, and
\* its remainder by 10 is 1 only when n/10 is a whole number that ends in 1.
TensDigitIsNot1(n) == ~(n % 10 = 0 /\ (n \div 10) % 10 = 1)

\* ordinal(n): the slice [i::4] of 'tsnrhtdd' holds the characters i and i+4.
ordinal(n) ==
    LET i == (Bool(TensDigitIsNot1(n)) * Bool(n % 10 < 4) * n) % 10
    IN  Returned(str(n) \o <<tsnrhtdd[i + 1], tsnrhtdd[i + 5]>>)

\* expand_range(text)
expand_range(text) ==
    IF \E k \in 1..Len(text) : text[k] = "-"
    THEN LET range_list == split(text, "-")
         IN  IF \E k \in 1..Len(range_list) : int_fails(range_list[k])
             THEN Raised("ValueError")
             ELSE LET sorted == sort(range_list)
                      first == int(sorted[1])
                      stop == int(sorted[2]) + 1
                  IN  Returned([k \in 1..(IF stop > first THEN stop - first ELSE 0) |->
                                   str(first + k - 1)])
    ELSE Returned(text)

\* The texts given to expand_range: 'X-Y', '-Y', 'X-', 'X' and 'X-Y-0'.
RangeTexts ==
    {str(x) \o <<"-">> \o str(y) : x \in 0..MaxBound, y \in 0..MaxBound}
        \cup {<<"-">> \o str(y) : y \in 0..MaxBound}
        \cup {str(x) \o <<"-">> : x \in 0..MaxBound}
        \cup {str(x) : x \in 0..MaxBound}
        \cup {str(x) \o <<"-">> \o str(y) \o <<"-", "0">> : x \in 1..2, y \in 1..2}

Call(fn, n, text, member) == [fn |-> fn, n |-> n, text |-> text, member |-> member]

InitData ==
    /\ input \in {Call("ordinal", n, <<>>, "-") : n \in 0..MaxOrdinal}
                     \cup {Call("expand_range", 0, text, "-") : text \in RangeTexts}
                     \cup {Call("ExitCode", 0, <<>>, member) : member \in DOMAIN ExitCode}
    /\ output = [raised |-> "-", value |-> <<>>]
    /\ UIIdle
    /\ StoreIdle
    /\ RunIdle

Ordinal ==
    /\ input.fn = "ordinal" /\ output.raised = "-"
    /\ output' = ordinal(input.n)
    /\ UNCHANGED <<input, uiVars, storeVars, runVars>>

ExpandRange ==
    /\ input.fn = "expand_range" /\ output.raised = "-"
    /\ output' = expand_range(input.text)
    /\ UNCHANGED <<input, uiVars, storeVars, runVars>>

\* ExitCode.<member>.value
Member ==
    /\ input.fn = "ExitCode" /\ output.raised = "-"
    /\ output' = Returned(ExitCode[input.member])
    /\ UNCHANGED <<input, uiVars, storeVars, runVars>>

NextData == Ordinal \/ ExpandRange \/ Member

SpecData == InitData /\ [][NextData]_vars

\* --------------------------------------- claims on ExitCode and data_utils
\* The value of an ExitCode member has been read.
ReadMember(member) ==
    input.fn = "ExitCode" /\ input.member = member /\ output.raised = "none"

Range(lo, hi) == [k \in 1..(hi - lo + 1) |-> str(lo + k - 1)]
Min(x, y) == IF x <= y THEN x ELSE y
Max(x, y) == IF x <= y THEN y ELSE x

\* C26: expand_range of 'X-Y' returns the decimal strings of every integer
\* from the smaller of X and Y to the larger, ascending, whatever the order
\* of X and Y; expand_range of '-Y' returns those of 1 to Y.
C26_RangeExpanded ==
    (input.fn = "expand_range" /\ output.raised /= "-") =>
        /\ \A x, y \in 0..MaxBound :
              (input.text = str(x) \o <<"-">> \o str(y))
                  => (output = Returned(Range(Min(x, y), Max(x, y))))
        /\ \A y \in 1..MaxBound :
              (input.text = <<"-">> \o str(y)) => (output = Returned(Range(1, y)))

\* The suffix English gives the number n.
Suffix(n) ==
    IF n % 10 = 1 /\ n % 100 /= 11 THEN <<"s", "t">>
    ELSE IF n % 10 = 2 /\ n % 100 /= 12 THEN <<"n", "d">>
    ELSE IF n % 10 = 3 /\ n % 100 /= 13 THEN <<"r", "d">>
    ELSE <<"t", "h">>

\* C27: ordinal(n) is the decimal digits of n followed by st, nd or rd when
\* the last digit is 1, 2 or 3 and the last two digits are not 11, 12 or 13,
\* and by th in every other case.
C27_OrdinalSuffix ==
    (input.fn = "ordinal" /\ output.raised /= "-") =>
        output = Returned(str(input.n) \o Suffix(input.n))

\* ------------------------------------------------- claims on config outputdir
\* C28: a run of `config outputdir PATH` with a PATH that does not exist or
\* is not writable raises CannotProceed with ExitCode.file_error, whose number
\* is 3, and leaves the outputdir setting, the configuration file and every
\* other file as they were; with a PATH that exists and is writable it raises
\* nothing, and the store and the configuration file hold PATH as outputdir.
C28_OutputdirValidatedFirst ==
    [][\A PATH \in {"/tmp", ".", "/etc", "scan"} :
         (nops' = nops + 1 /\ argv'.tokens = <<"config", "outputdir", PATH>>) =>
             IF path_exists(PATH) /\ writable(PATH)
             THEN /\ exception' = NoCond
                  /\ ConfigStorage_get(config', "outputdir", "documentarist") = PATH
                  /\ exists(files', config_file)
                  /\ files'[config_file].data[<<"documentarist", "outputdir">>] = PATH
             ELSE /\ exception' = Cond("CannotProceed", "file_error")
                  /\ ExitCode[exception'.arg][1] = 3
                  /\ ConfigStorage_get(config', "outputdir", "documentarist")
                         = ConfigStorage_get(ConfigStorage_init, "outputdir", "documentarist")
                  /\ files' = files
                  /\ confdir' = confdir]_vars

\* A run with a directory that exists and is not writable, after a run that
\* stored another directory.
C28_Witness ==
    /\ pc = "exited" /\ argv.tokens = <<"config", "outputdir", "/etc">>
    /\ exception = Cond("CannotProceed", "file_error")
    /\ exists(files, config_file)
    /\ files[config_file].data[<<"documentarist", "outputdir">>] = "/tmp"

\* C30: a run of `config auth SERVICE FILE`, with a service of the program
\* and a FILE that exists, can be read and ends in json, raises nothing also
\* when CONFIG_DIR does not exist before the run: after it CONFIG_DIR exists
\* and the managed file holds FILE's content; and after any run of
\* `config auth` the store names the managed path as creds_file only if the
\* managed file holds FILE's content.
C30_InstallOnFirstRun ==
    [][\A name \in AuthServices, f \in AuthFiles :
         LET s == lower(name)
         IN  (nops' = nops + 1 /\ argv'.tokens = <<"config", "auth", name, f>> /\ s \in Services)
             => /\ (exists(files, f) /\ ~FailsWhileRead(f) /\ endswith_json(f))
                       => /\ exception' = NoCond
                          /\ confdir'
                          /\ files'[dest_file(s)] = files[f]
                /\ (ConfigStorage_get(config', "creds_file", s) = dest_file(s))
                       => (files'[dest_file(s)] = files[f])]_vars

====
